---- MODULE Spec2Model ----
(***************************************************************************)
(* Model of circular_blade_stagger_angle.py: the blade-profile pipeline    *)
(* generate_circular_profile -> cartesian_to_meridional ->                 *)
(* interpolate_polynomial, and the two stagger-angle estimators, run for   *)
(* the hub, mid and tip spans by the module-level script.                  *)
(*                                                                         *)
(* Numbers.  numpy float64 values are modelled as fixed-point integers     *)
(* plus the three IEEE specials NaN, PosInf and NegInf:                    *)
(*   lengths           in LU   (1 LU = 1e-4 m)                             *)
(*   velocities        in mm/s                                             *)
(*   angles            in whole degrees (trigonometry by a sine table)     *)
(*   sines, slopes     scaled by SC                                        *)
(*   radians           in milliradians                                     *)
(*   meridional m, %m' scaled by SC, radii in cartesian_to_meridional by   *)
(*                     RS                                                  *)
(* float64 keeps 53 significant bits of every arithmetic result; the model  *)
(* keeps four significant decimal digits (Rnd), so that an operation       *)
(* on large magnitudes loses low-order digits as the float64 one does.     *)
(***************************************************************************)
EXTENDS Integers, Sequences, FiniteSets, TLC

(***************************************************************************)
(* State.                                                                  *)
(*   args[s]    the arguments generate_circular_profile is called with for *)
(*              span s                                                     *)
(*   pc[s]      the next pipeline stage of span s: 1 generate, 2           *)
(*              meridional, 3 interpolate, 4 arctan2, 5 arctan, 6 done     *)
(*   heap       the array and list objects created so far; an object is    *)
(*              named by its index                                         *)
(*   env[s]     the script's variables of span s: references into heap     *)
(*              (0: unbound) and scalar results                            *)
(*   raised[s]  the exception, if any, that ended span s's computation     *)
(***************************************************************************)
VARIABLES args, pc, heap, env, raised

vars == <<args, pc, heap, env, raised>>

(***************************************************************************)
(* Bounds of the model.                                                    *)
(***************************************************************************)
MaxLen == 6

(***************************************************************************)
(* IEEE specials and the fixed-point resolution.                           *)
(***************************************************************************)
NaN == 1999999999
PosInf == 1999999998
NegInf == -1999999998
SC == 10000
RS == 100
LU_PER_M == 10000

IsFin(v) == v # NaN /\ v # PosInf /\ v # NegInf
IsInf(v) == v = PosInf \/ v = NegInf

Abs(a) == IF a < 0 THEN -a ELSE a
Sgn(a) == IF a < 0 THEN -1 ELSE IF a > 0 THEN 1 ELSE 0
\* The quotient a / b (b # 0) rounded to the nearest integer, as a float64
\* operation rounds to the nearest representable value.
Quo[a \in Int, b \in Int] == Sgn(a) * Sgn(b) * ((Abs(a) + Abs(b) \div 2) \div Abs(b))

\* The significand of a model float is below SigLimit (four decimal digits).
SigLimit == 10000

\* v rounded to the nearest multiple of f, f the least power of ten that
\* leaves a significand below SigLimit.
RECURSIVE RoundTo(_, _)
RoundTo(v, f) ==
  IF Abs(v) \div f < SigLimit THEN Quo[v, f] * f ELSE RoundTo(v, f * 10)

\* Round-to-nearest of a finite arithmetic result.
Rnd[v \in Int] == RoundTo(v, 1)

FNeg[a \in Int] ==
  IF a = NaN THEN NaN ELSE IF a = PosInf THEN NegInf
  ELSE IF a = NegInf THEN PosInf ELSE -a

FAdd[a \in Int, b \in Int] ==
  IF a = NaN \/ b = NaN THEN NaN
  ELSE IF IsInf(a) /\ IsInf(b) THEN (IF a = b THEN a ELSE NaN)
  ELSE IF IsInf(a) THEN a
  ELSE IF IsInf(b) THEN b
  ELSE Rnd[a + b]

FSub[a \in Int, b \in Int] == FAdd[a, FNeg[b]]

FSgn(a) == IF a = PosInf THEN 1 ELSE IF a = NegInf THEN -1 ELSE Sgn(a)
SignedInf(s) == IF s > 0 THEN PosInf ELSE NegInf

\* a * b / s  (s > 0 a fixed-point scale).
FMul[a \in Int, b \in Int, s \in Int] ==
  IF a = NaN \/ b = NaN THEN NaN
  ELSE IF IsInf(a) \/ IsInf(b)
       THEN (IF FSgn(a) = 0 \/ FSgn(b) = 0 THEN NaN ELSE SignedInf(FSgn(a) * FSgn(b)))
  ELSE Rnd[Quo[a * b, s]]

\* numpy float64 division a * s / b: x/0 is +-inf, 0/0 is nan, no exception.
FDiv[a \in Int, b \in Int, s \in Int] ==
  IF a = NaN \/ b = NaN THEN NaN
  ELSE IF IsInf(a) THEN (IF IsInf(b) THEN NaN
                         ELSE SignedInf(FSgn(a) * (IF b < 0 THEN -1 ELSE 1)))
  ELSE IF IsInf(b) THEN 0
  ELSE IF b = 0 THEN (IF a = 0 THEN NaN ELSE SignedInf(Sgn(a)))
  ELSE Rnd[Quo[a * s, b]]

\* Python's > on floats: False whenever an operand is nan.
FGt[a \in Int, b \in Int] ==
  IF a = NaN \/ b = NaN THEN FALSE
  ELSE IF a = b THEN FALSE
  ELSE IF a = PosInf \/ b = NegInf THEN TRUE
  ELSE IF a = NegInf \/ b = PosInf THEN FALSE
  ELSE a > b

RECURSIVE SqrtSearch(_, _, _)
SqrtSearch(n, lo, hi) ==
  IF lo >= hi THEN lo
  ELSE LET mid == (lo + hi + 1) \div 2
       IN IF mid * mid <= n THEN SqrtSearch(n, mid, hi) ELSE SqrtSearch(n, lo, mid - 1)

\* floor(sqrt(n)) for 0 <= n < 2^31.
ISqrt[n \in Int] == SqrtSearch(n, 0, 46340)

\* np.sqrt: nan (with a RuntimeWarning, no exception) for a negative operand.
FSqrt[a \in Int] ==
  IF a = NaN \/ a = NegInf THEN NaN
  ELSE IF a = PosInf THEN PosInf
  ELSE IF a < 0 THEN NaN
  ELSE Rnd[ISqrt[a]]

(***************************************************************************)
(* Trigonometry: sin(d degrees) * SC for d = 0..90.                        *)
(***************************************************************************)
SinT == <<0, 175, 349, 523, 698, 872, 1045, 1219, 1392, 1564, 1736, 1908,
  2079, 2250, 2419, 2588, 2756, 2924, 3090, 3256, 3420, 3584, 3746, 3907,
  4067, 4226, 4384, 4540, 4695, 4848, 5000, 5150, 5299, 5446, 5592, 5736,
  5878, 6018, 6157, 6293, 6428, 6561, 6691, 6820, 6947, 7071, 7193, 7314,
  7431, 7547, 7660, 7771, 7880, 7986, 8090, 8192, 8290, 8387, 8480, 8572,
  8660, 8746, 8829, 8910, 8988, 9063, 9135, 9205, 9272, 9336, 9397, 9455,
  9511, 9563, 9613, 9659, 9703, 9744, 9781, 9816, 9848, 9877, 9903, 9925,
  9945, 9962, 9976, 9986, 9994, 9998, 10000>>

SinD[d \in Int] ==
  LET m == d % 360
  IN IF m <= 90 THEN SinT[m + 1]
     ELSE IF m <= 180 THEN SinT[180 - m + 1]
     ELSE IF m <= 270 THEN -SinT[m - 180 + 1]
     ELSE -SinT[360 - m + 1]

CosD[d \in Int] == SinD[d + 90]

\* np.sin / np.cos of an angle in degrees-or-special: nan for nan and +-inf.
FSin[a \in Int] == IF IsFin(a) THEN SinD[a] ELSE NaN
FCos[a \in Int] == IF IsFin(a) THEN CosD[a] ELSE NaN

\* np.tan * SC.  tan(pi/2) is a huge finite float; it is modelled by PosInf,
\* which divides to 0 as the huge value does.
FTan[a \in Int] ==
  IF ~IsFin(a) THEN NaN
  ELSE IF CosD[a] = 0 THEN SignedInf(SinD[a])
  ELSE Quo[SinD[a] * SC, CosD[a]]

\* Largest d in 0..90 with tan(d) <= n/d0, for n >= 0, d0 >= 0, not both 0.
AtanPos[n \in Int, d0 \in Int] ==
  LET f == (((IF n > d0 THEN n ELSE d0)) \div SC) + 1
      nn == n \div f
      dd == d0 \div f
  IN IF dd = 0 THEN 90
     ELSE CHOOSE d \in 0..89 :
            /\ SinT[d + 1] * dd <= nn * SinT[90 - d + 1]
            /\ (d = 89 \/ SinT[d + 2] * dd > nn * SinT[90 - d])

\* np.arctan(num/den) in degrees, the quotient taken as numpy takes it.
FAtanRatio[num \in Int, den \in Int] ==
  IF num = NaN \/ den = NaN THEN NaN
  ELSE IF IsInf(num) THEN (IF IsInf(den) THEN NaN
                           ELSE 90 * FSgn(num) * (IF den < 0 THEN -1 ELSE 1))
  ELSE IF IsInf(den) THEN 0
  ELSE IF den = 0 THEN (IF num = 0 THEN NaN ELSE 90 * Sgn(num))
  ELSE Sgn(num) * Sgn(den) * AtanPos[Abs(num), Abs(den)]

\* np.arctan2(a, b) in degrees, in -180..180.
FAtan2[a \in Int, b \in Int] ==
  IF a = NaN \/ b = NaN THEN NaN
  ELSE IF IsInf(a) /\ IsInf(b)
       THEN FSgn(a) * (IF b = PosInf THEN 45 ELSE 135)
  ELSE IF IsInf(a) THEN 90 * FSgn(a)
  ELSE IF IsInf(b) THEN (IF b = PosInf THEN 0 ELSE IF a < 0 THEN -180 ELSE 180)
  ELSE IF a = 0 /\ b = 0 THEN 0
  ELSE IF b > 0 THEN Sgn(a) * AtanPos[Abs(a), b]
  ELSE IF b = 0 THEN 90 * Sgn(a)
  ELSE IF a >= 0 THEN 180 - AtanPos[a, -b]
  ELSE -180 + AtanPos[-a, -b]

(***************************************************************************)
(* Program constants (the script's hydraulic parameters, lines 179-188).   *)
(***************************************************************************)
g == 981                 \* 9.81 m/s^2, in cm/s^2
PI_MILLI == 3142         \* np.pi * 1000
H == 3                   \* m
Q == 15                  \* 0.015 m^3/s, in l/s
N == 3600                \* rpm
eff == 65                \* 0.65, in percent
number_of_points == 40
stagger_angle_hub == -40 \* 28.96 - 69.30 degrees
stagger_angle_mid == -40 \* 23.44 - 63.77 degrees
stagger_angle_tip == -40 \* 19.53 - 59.87 degrees
percentage_positions == <<0, 2500, 5000, 7500, 10000>>

Spans == <<"hub", "mid", "tip">>
SpanSet == {"hub", "mid", "tip"}

Raise(exc, line) == [raised |-> exc, line |-> line]

\* Fault variant of x_2d_initial: the list hoisted to module level, so that a
\* call starts from what the previous call left on the heap.
x_2d_shared == IF heap = <<>> THEN <<>> ELSE heap[Len(heap)]

\* The list x_2d before the sampling loop appends to it.
x_2d_initial == <<>>

\* Fault variant of x_2d_samples: the loop counting up, range(0, number_of_points + 1).
x_2d_samples_counting_up(x1, x2) ==
  [j \in 1..(number_of_points + 1) |->
     LET i == j - 1
     IN FAdd[x2, FDiv[FMul[i, FSub[x1, x2], 1], number_of_points, 1]]]

\* Fault variant of x_2d_samples: the loop stopping one short, range(number_of_points, 0, -1).
x_2d_samples_one_short(x1, x2) ==
  [j \in 1..number_of_points |->
     LET i == number_of_points - (j - 1)
     IN FAdd[x2, FDiv[FMul[i, FSub[x1, x2], 1], number_of_points, 1]]]

\* The sampling loop: for i in range(number_of_points, -1, -1), appending
\* x2 + (i/number_of_points) * (x1 - x2).
x_2d_samples(x1, x2) ==
  [j \in 1..(number_of_points + 1) |->
     LET i == number_of_points - (j - 1)
     IN FAdd[x2, FDiv[FMul[i, FSub[x1, x2], 1], number_of_points, 1]]]

\* The radius the 2D displacement is wrapped on (theta = x / ri).
ProjectionRadius(a) == a.ri

\* Lines 28-55: the velocity triangle and the arc through the two flow angles.
ArcGeometry(a) ==
  LET k == Quo[g * a.H * a.eff * 6000, Quo[a.N * 2 * PI_MILLI, 1000]]   \* 1e-6 m^2/s
      half_wrap == FDiv[180, a.z, 1]                 \* wrap_angle / 2, degrees
      omega == Quo[a.N * 2 * PI_MILLI, 60]             \* mrad/s
      area == Quo[PI_MILLI * (a.rt * a.rt - a.rh * a.rh), 1000]  \* pi*(rt^2-rh^2), LU^2
      va == FDiv[a.Q * 100000000, area, 1]
      vt == Quo[omega * a.ri, 10000]
      vc == FDiv[k * 10, a.ri, 1]
      beta1 == FAtanRatio[va, vt]
      beta2 == FAtanRatio[va, FAdd[vc, vt]]
      L == FMul[2, FMul[a.ri, FSin[half_wrap], SC], 1]
      comp1 == FSub[90, beta1]                       \* pi/2 - beta1
      rc == FDiv[L, FSub[FDiv[FSin[comp1], FTan[comp1], SC], FSin[beta2]], SC]
  IN [area |-> area, va |-> va, vt |-> vt, vc |-> vc,
      beta1 |-> beta1, beta2 |-> beta2, L |-> L,
      x1 |-> FNeg[FDiv[L, 2, 1]], x2 |-> FDiv[L, 2, 1],
      rc |-> rc,
      xc |-> FAdd[FDiv[L, 2, 1], FMul[rc, FSin[beta2], SC]],
      yc |-> FMul[rc, FSin[comp1], SC]]

\* Line 66: y_2d = yc - np.sqrt(rc**2 - (x_2d - xc)**2), element by element.
Radicand(geo, x) == FSub[FMul[geo.rc, geo.rc, 1], FMul[FSub[x, geo.xc], FSub[x, geo.xc], 1]]

\* Lines 57-91 for the arc geo: sampling, the y coordinate, the rotation and
\* the projection on the cylinder of radius ri.
Profile(a, geo, x_2d) ==
  LET y_2d == [j \in DOMAIN x_2d |-> FSub[geo.yc, FSqrt[Radicand(geo, x_2d[j])]]]
      x_2d_rotated == [j \in DOMAIN x_2d |->
                         FSub[FMul[x_2d[j], CosD[a.stagger_angle], SC],
                              FMul[y_2d[j], SinD[a.stagger_angle], SC]]]
      y_2d_rotated == [j \in DOMAIN x_2d |->
                         FAdd[FMul[x_2d[j], SinD[a.stagger_angle], SC],
                              FMul[y_2d[j], CosD[a.stagger_angle], SC]]]
      theta == [j \in DOMAIN x_2d |-> FDiv[x_2d_rotated[j], ProjectionRadius(a), 1000]]
      theta_deg == [j \in DOMAIN x_2d |-> FDiv[FMul[theta[j], 180, 1], PI_MILLI, 1]]
  IN [raised |-> "none", line |-> 93,
      x_3d |-> [j \in DOMAIN x_2d |-> FMul[a.ri, FCos[theta_deg[j]], SC]],
      y_3d |-> [j \in DOMAIN x_2d |-> FMul[a.ri, FSin[theta_deg[j]], SC]],
      x_2d_rotated |-> x_2d_rotated, y_2d_rotated |-> y_2d_rotated,
      beta1 |-> geo.beta1, beta2 |-> geo.beta2, L |-> geo.L,
      x1 |-> geo.x1, x2 |-> geo.x2, rc |-> geo.rc, xc |-> geo.xc, yc |-> geo.yc,
      x_2d |-> x_2d,
      radicand |-> [j \in DOMAIN x_2d |-> Radicand(geo, x_2d[j])],
      y_2d |-> y_2d]

\* The one element of a singleton set.
The(S) == CHOOSE v \in S : TRUE

(***************************************************************************)
(* generate_circular_profile(H, Q, N, eff, ri, rh, rt, z, stagger_angle).  *)
(* a.kind tells how the scalar arguments are represented: "py" for Python  *)
(* int/float (the script's literals), whose division by zero raises        *)
(* ZeroDivisionError, "np" for numpy.float64, whose division by zero gives *)
(* inf or nan with a warning.                                              *)
(***************************************************************************)
generate_circular_profile(a) ==
  The({ IF a.kind = "py" /\ a.z = 0 THEN Raise("ZeroDivisionError", 30)
        ELSE IF a.kind = "py" /\ geo.area = 0 THEN Raise("ZeroDivisionError", 34)
        ELSE IF a.kind = "py" /\ a.ri = 0 THEN Raise("ZeroDivisionError", 36)
        ELSE IF a.kind = "py" /\ geo.vt = 0 THEN Raise("ZeroDivisionError", 39)
        ELSE IF a.kind = "py" /\ FAdd[geo.vc, geo.vt] = 0
             THEN Raise("ZeroDivisionError", 40)
        ELSE The({ Profile(a, geo, x_2d) :
                     x_2d \in {x_2d_initial \o x_2d_samples(geo.x1, geo.x2)} })
        : geo \in {ArcGeometry(a)} })

(***************************************************************************)
(* cartesian_to_meridional(x, y, z).                                       *)
(***************************************************************************)
m_prev_initial == 0
r_prev_initial == 0

\* r_i = np.sqrt(x[i]**2 + y[i]**2), scaled by RS.
Radius(x, y, i) ==
  FSqrt[FMul[FAdd[FMul[x[i], x[i], 1], FMul[y[i], y[i], 1]], RS * RS, 1]]

\* The reference angle every theta_i is taken from: np.arctan2(x[0], y[0]).
ThetaReference(x, y) == FAtan2[x[1], y[1]]

\* Fault variant of MeridionalStep: the step without the running sum m_prev.
MeridionalStepNoCarry(m_prev, r_prev, r_i, z_i, z_before) ==
  LET dz == FMul[FSub[z_i, z_before], RS, 1]
      dr == FSub[r_i, r_prev]
  IN FDiv[FSqrt[FAdd[FMul[dz, dz, 1], FMul[dr, dr, 1]]], r_i, SC]

\* m_i of a node after the first: m_prev + sqrt((z[i]-z[i-1])^2 + (r_i-r_prev)^2) / r_i.
MeridionalStep(m_prev, r_prev, r_i, z_i, z_before) ==
  LET dz == FMul[FSub[z_i, z_before], RS, 1]
      dr == FSub[r_i, r_prev]
  IN FAdd[m_prev, FDiv[FSqrt[FAdd[FMul[dz, dz, 1], FMul[dr, dr, 1]]], r_i, SC]]

\* Fault variant of NextRPrev: r_prev not updated in the first iteration, so
\* that the second node is measured from the placeholder radius.
NextRPrevSkippingFirst(i, r_prev, r_i) == IF i = 1 THEN r_prev ELSE r_i

\* What the loop body leaves in r_prev for the next node.
NextRPrev(i, r_prev, r_i) == r_i

RECURSIVE MeridionalLoop(_, _, _, _, _)
MeridionalLoop(x, y, z, i, st) ==
  IF i > Len(x) THEN st
  ELSE LET r_i == Radius(x, y, i)
           m_i == IF i = 1 THEN 0
                  ELSE MeridionalStep(st.m_prev, st.r_prev, r_i, z[i], z[i - 1])
           theta_i == FSub[FAtan2[x[i], y[i]], ThetaReference(x, y)]
       IN MeridionalLoop(x, y, z, i + 1,
            [m |-> Append(st.m, m_i), theta |-> Append(st.theta, FNeg[theta_i]),
             r |-> Append(st.r, r_i),
             m_prev |-> m_i, r_prev |-> NextRPrev(i, st.r_prev, r_i)])

\* Python's max() of a non-empty list: the first element that no later one exceeds.
RECURSIVE PyMax(_, _, _)
PyMax(m, i, best) ==
  IF i > Len(m) THEN best
  ELSE PyMax(m, i + 1, IF FGt[m[i], best] THEN m[i] ELSE best)

cartesian_to_meridional(x, y, z) ==
  LET st == MeridionalLoop(x, y, z, 1,
              [m |-> <<>>, theta |-> <<>>, r |-> <<>>,
               m_prev |-> m_prev_initial, r_prev |-> r_prev_initial])
      max_m == PyMax(st.m, 2, st.m[1])
  IN IF Len(x) = 0 THEN Raise("ValueError", 126)
     ELSE IF max_m = 0 THEN Raise("ZeroDivisionError", 127)
     ELSE [raised |-> "none", line |-> 129,
           m_i_percentage |-> [i \in DOMAIN st.m |-> FDiv[st.m[i], max_m, SC]],
           theta |-> st.theta, m |-> st.m, r |-> st.r, max_m |-> max_m]

(***************************************************************************)
(* interpolate_polynomial(m_prime_percentage, theta, points_to_evaluate).  *)
(* The fitted values themselves are not computed: the result records, per  *)
(* query fraction, that a value was returned, whether np.polyfit met a     *)
(* rank-deficient system (fewer than 6 distinct abscissae: a RankWarning,  *)
(* not an exception) and whether R^2 has a non-zero denominator.           *)
(* lapack chooses what the least-squares driver does with non-finite data: *)
(* raise LinAlgError or return nan.                                        *)
(***************************************************************************)
AllFinite(s) == \A i \in DOMAIN s : IsFin(s[i])
SeqSum(s) == LET RECURSIVE Sum(_)
                 Sum(i) == IF i = 0 THEN 0 ELSE s[i] + Sum(i - 1)
             IN Sum(Len(s))

\* Len(theta) * sum((theta - mean)^2), which is 0 exactly when SS_tot is.
TotalSumOfSquares(theta) ==
  Len(theta) * SeqSum([i \in DOMAIN theta |-> theta[i] * theta[i]])
    - SeqSum(theta) * SeqSum(theta)

\* The least number of points np.polyfit accepts without raising.
PolyfitMinPoints == 1

interpolate_polynomial(m_prime_percentage, theta, points_to_evaluate, lapack) ==
  LET n == Len(m_prime_percentage)
      finite == AllFinite(m_prime_percentage) /\ AllFinite(theta)
  IN IF n < PolyfitMinPoints THEN Raise("TypeError", 136)
     ELSE IF ~finite /\ lapack = "LinAlgError" THEN Raise("LinAlgError", 136)
     ELSE [raised |-> "none", line |-> 148,
           interpolated_values_points |->
             [j \in DOMAIN points_to_evaluate |->
                [at |-> points_to_evaluate[j], finite |-> finite]],
           rank_warning |->
             Cardinality({m_prime_percentage[i] : i \in DOMAIN m_prime_percentage}) < 6,
           r_squared |-> IF ~finite THEN "nan"
                         ELSE IF TotalSumOfSquares(theta) = 0 THEN "nan_or_inf"
                         ELSE "finite"]

(***************************************************************************)
(* The stagger-angle estimators.  The slope of the plain-arctangent        *)
(* estimator is kept exactly, as the numerator over LU_PER_M * (x2 - x1);  *)
(* y2 enters in metres, being added to a pure ratio.                       *)
(***************************************************************************)
stagger_angle_rotated_arctan2(x1, x2, y1, y2) ==
  [angle |-> FAtan2[FSub[y2, y1], FSub[x2, x1]]]

\* slope = y2 - y1 / (x2 - x1), times LU_PER_M * (x2 - x1).
SlopeNumerator(x1, x2, y1, y2) == y2 * (x2 - x1) - y1 * LU_PER_M

stagger_angle_rotated_arctan(x1, x2, y1, y2) ==
  LET slope == FSub[FDiv[y2, LU_PER_M, SC], FDiv[y1, FSub[x2, x1], SC]]
  IN [angle |-> FAtanRatio[slope, SC],
      slope |-> slope,
      slope_num |-> IF IsFin(x1) /\ IsFin(x2) /\ IsFin(y1) /\ IsFin(y2)
                    THEN SlopeNumerator(x1, x2, y1, y2) ELSE NaN]

Unset == [set |-> FALSE]
NoException == [raised |-> "none", line |-> 0]

EmptyEnv == [x_3d |-> 0, y_3d |-> 0, z_3d |-> 0, x_2d |-> 0, y_2d |-> 0,
             m |-> 0, theta |-> 0,
             geom |-> Unset, curve |-> Unset, fit |-> Unset,
             arctan2 |-> Unset, arctan |-> Unset]

\* The objects a call of generate_circular_profile adds to the heap:
\* x_3d, y_3d, y_2d_rotated (returned twice, as z_3d too) and x_2d_rotated.
HeapAfterGenerate(h, r) ==
  h \o <<r.x_3d, r.y_3d, r.y_2d_rotated, r.x_2d_rotated>>

Generate(s) ==
  /\ pc[s] = 1
  /\ \E r \in {generate_circular_profile(args[s])}, n \in {Len(heap)} :
        IF r.raised # "none"
        THEN /\ raised' = [raised EXCEPT ![s] = r]
             /\ UNCHANGED <<pc, heap, env>>
        ELSE /\ heap' = HeapAfterGenerate(heap, r)
             /\ env' = [env EXCEPT ![s] =
                  [@ EXCEPT !.x_3d = n + 1, !.y_3d = n + 2, !.z_3d = n + 3,
                            !.y_2d = n + 3, !.x_2d = n + 4,
                            !.geom = [beta1 |-> r.beta1, beta2 |-> r.beta2, L |-> r.L,
                                      x1 |-> r.x1, x2 |-> r.x2, rc |-> r.rc,
                                      xc |-> r.xc, yc |-> r.yc,
                                      x_2d |-> r.x_2d, radicand |-> r.radicand,
                                      y_2d |-> r.y_2d]]]
             /\ pc' = [pc EXCEPT ![s] = 2]
             /\ UNCHANGED raised
  /\ UNCHANGED args

\* The objects a call of cartesian_to_meridional adds: the lists it returns.
HeapAfterMeridional(h, e, r) == h \o <<r.m_i_percentage, r.theta>>

Meridional(s) ==
  /\ pc[s] = 2
  /\ \E e \in {env[s]}, n \in {Len(heap)} :
      \E r \in {cartesian_to_meridional(heap[e.x_3d], heap[e.y_3d], heap[e.z_3d])} :
        IF r.raised # "none"
        THEN /\ raised' = [raised EXCEPT ![s] = r]
             /\ UNCHANGED <<pc, heap, env>>
        ELSE /\ heap' = HeapAfterMeridional(heap, e, r)
             /\ env' = [env EXCEPT ![s] =
                  [@ EXCEPT !.m = n + 1, !.theta = n + 2,
                            !.curve = [m |-> r.m, r |-> r.r, max_m |-> r.max_m]]]
             /\ pc' = [pc EXCEPT ![s] = 3]
             /\ UNCHANGED raised
  /\ UNCHANGED args

\* Fault variant of HeapAfterInterpolate: theta centred in place
\* (theta -= mean_theta on the caller's array).
HeapAfterInterpolateInPlace(h, e) ==
  LET theta == h[e.theta]
      mean_theta == IF AllFinite(theta) THEN Quo[SeqSum(theta), Len(theta)] ELSE NaN
  IN [h EXCEPT ![e.theta] = [i \in DOMAIN theta |-> FSub[theta[i], mean_theta]]]

\* interpolate_polynomial builds new arrays (theta - mean_theta, the
\* evaluated values) and stores into none of its arguments.
HeapAfterInterpolate(h, e) == h

Interpolate(s) ==
  /\ pc[s] = 3
  /\ \E lapack \in {"LinAlgError", "nan"} :
      \E e \in {env[s]} :
      \E r \in {interpolate_polynomial(heap[e.m], heap[e.theta],
                                       percentage_positions, lapack)} :
          IF r.raised # "none"
          THEN /\ raised' = [raised EXCEPT ![s] = r]
               /\ UNCHANGED <<pc, heap, env>>
          ELSE /\ heap' = HeapAfterInterpolate(heap, e)
               /\ env' = [env EXCEPT ![s] = [@ EXCEPT !.fit = r]]
               /\ pc' = [pc EXCEPT ![s] = 4]
               /\ UNCHANGED raised
  /\ UNCHANGED args

First(sq) == sq[1]
Last(sq) == sq[Len(sq)]

StaggerArctan2(s) ==
  /\ pc[s] = 4
  /\ LET x == heap[env[s].x_2d]
         y == heap[env[s].y_2d]
     IN env' = [env EXCEPT ![s] = [@ EXCEPT !.arctan2 =
                  stagger_angle_rotated_arctan2(First(x), Last(x), First(y), Last(y))]]
  /\ pc' = [pc EXCEPT ![s] = 5]
  /\ UNCHANGED <<args, heap, raised>>

StaggerArctan(s) ==
  /\ pc[s] = 5
  /\ LET x == heap[env[s].x_2d]
         y == heap[env[s].y_2d]
     IN env' = [env EXCEPT ![s] = [@ EXCEPT !.arctan =
                  stagger_angle_rotated_arctan(First(x), Last(x), First(y), Last(y))]]
  /\ pc' = [pc EXCEPT ![s] = 6]
  /\ UNCHANGED <<args, heap, raised>>

(***************************************************************************)
(* The script (lines 178-239): the user inputs, then each stage for hub,   *)
(* mid and tip in turn.  An uncaught exception ends the script.            *)
(***************************************************************************)
SpanIndex(s) == CHOOSE i \in 1..3 : Spans[i] = s

ScriptTurn(s) ==
  /\ \A t \in SpanSet : raised[t].raised = "none"
  /\ \A t \in SpanSet : SpanIndex(t) < SpanIndex(s) => pc[t] > pc[s]
  /\ \A t \in SpanSet : SpanIndex(t) > SpanIndex(s) => pc[t] >= pc[s]

RiHubChoices == {0, 1, 151, 226}
RiTipChoices == {17, 226, 377}
ZChoices == {0, 5}
KindChoices == {"py", "np"}

ScriptArgs(ri_hub, ri_tip, z, kind) ==
  LET rh == ri_hub
      rt == ri_tip
      ri_mid == Quo[ri_hub + ri_tip, 2]
      call(ri, st) == [H |-> H, Q |-> Q, N |-> N, eff |-> eff,
                       ri |-> ri, rh |-> rh, rt |-> rt, z |-> z,
                       stagger_angle |-> st, kind |-> kind]
  IN [s \in SpanSet |->
        IF s = "hub" THEN call(ri_hub, stagger_angle_hub)
        ELSE IF s = "mid" THEN call(ri_mid, stagger_angle_mid)
        ELSE call(ri_tip, stagger_angle_tip)]

Init ==
  /\ \E ri_hub \in RiHubChoices, ri_tip \in RiTipChoices, z \in ZChoices,
        kind \in KindChoices :
       args = ScriptArgs(ri_hub, ri_tip, z, kind)
  /\ pc = [s \in SpanSet |-> 1]
  /\ heap = <<>>
  /\ env = [s \in SpanSet |-> EmptyEnv]
  /\ raised = [s \in SpanSet |-> NoException]

GenerateStmt == \E s \in SpanSet : ScriptTurn(s) /\ Generate(s)
MeridionalStmt == \E s \in SpanSet : ScriptTurn(s) /\ Meridional(s)
InterpolateStmt == \E s \in SpanSet : ScriptTurn(s) /\ Interpolate(s)
StaggerArctan2Stmt == \E s \in SpanSet : ScriptTurn(s) /\ StaggerArctan2(s)
StaggerArctanStmt == \E s \in SpanSet : ScriptTurn(s) /\ StaggerArctan(s)

Next ==
  \/ GenerateStmt
  \/ MeridionalStmt
  \/ InterpolateStmt
  \/ StaggerArctan2Stmt
  \/ StaggerArctanStmt

Spec == Init /\ [][Next]_vars

(***************************************************************************)
(* The spans run as independent pipelines, their stages interleaved in any *)
(* order and each called with arguments of its own; an exception ends only *)
(* the span that raised it.                                                *)
(***************************************************************************)
SpanTurn(s) == raised[s].raised = "none"

AnyOrderArgs ==
  {[H |-> H, Q |-> Q, N |-> N, eff |-> eff,
    ri |-> ri, rh |-> 151, rt |-> 377, z |-> z,
    stagger_angle |-> stagger_angle_hub, kind |-> "py"] :
     ri \in {226, 377}, z \in {5}}

\* Two spans are called with the same arguments, the third with any.
InitAnyOrder ==
  /\ args \in {a \in [SpanSet -> AnyOrderArgs] : a["hub"] = a["tip"] /\ a["hub"].ri = 226}
  /\ pc = [s \in SpanSet |-> 1]
  /\ heap = <<>>
  /\ env = [s \in SpanSet |-> EmptyEnv]
  /\ raised = [s \in SpanSet |-> NoException]

GenerateAny == \E s \in SpanSet : SpanTurn(s) /\ Generate(s)
MeridionalAny == \E s \in SpanSet : SpanTurn(s) /\ Meridional(s)
InterpolateAny == \E s \in SpanSet : SpanTurn(s) /\ Interpolate(s)
StaggerArctan2Any == \E s \in SpanSet : SpanTurn(s) /\ StaggerArctan2(s)
StaggerArctanAny == \E s \in SpanSet : SpanTurn(s) /\ StaggerArctan(s)

NextAnyOrder ==
  \/ GenerateAny
  \/ MeridionalAny
  \/ InterpolateAny
  \/ StaggerArctan2Any
  \/ StaggerArctanAny

SpecAnyOrder == InitAnyOrder /\ [][NextAnyOrder]_vars

(***************************************************************************)
(* The functions after generate_circular_profile called directly on an     *)
(* arbitrary point sequence: the "hub" variables hold 1..MaxLen points     *)
(* drawn from Points, x_2d and y_2d being their x and z coordinates.       *)
(***************************************************************************)
Points == {<<0, 0, 0>>, <<3, 4, 0>>, <<4, 3, 2>>, <<6, 8, 1>>}

PointSeqs == UNION {[1..n -> Points] : n \in 1..MaxLen}

Coordinate(ps, c) == [i \in DOMAIN ps |-> ps[i][c]]

InitCalls ==
  /\ args = ScriptArgs(226, 377, 5, "py")
  /\ \E ps \in PointSeqs :
       /\ heap = <<Coordinate(ps, 1), Coordinate(ps, 2), Coordinate(ps, 3)>>
       /\ env = [s \in SpanSet |->
                   IF s = "hub"
                   THEN [EmptyEnv EXCEPT !.x_3d = 1, !.y_3d = 2, !.z_3d = 3,
                                         !.x_2d = 1, !.y_2d = 3]
                   ELSE EmptyEnv]
  /\ pc = [s \in SpanSet |-> IF s = "hub" THEN 2 ELSE 6]
  /\ raised = [s \in SpanSet |-> NoException]

MeridionalCall == SpanTurn("hub") /\ Meridional("hub")
InterpolateCall == SpanTurn("hub") /\ Interpolate("hub")
StaggerArctan2Call == SpanTurn("hub") /\ StaggerArctan2("hub")
StaggerArctanCall == SpanTurn("hub") /\ StaggerArctan("hub")

NextCalls ==
  \/ MeridionalCall
  \/ InterpolateCall
  \/ StaggerArctan2Call
  \/ StaggerArctanCall

SpecCalls == InitCalls /\ [][NextCalls]_vars

(***************************************************************************)
(* Properties.                                                             *)
(***************************************************************************)
\* generate_circular_profile has returned for span s.
Generated(s) == pc[s] >= 2 /\ env[s].geom # Unset
\* cartesian_to_meridional has returned for span s.
Converted(s) == env[s].curve # Unset

NonDecreasing(sq) == \A j \in 1..(Len(sq) - 1) : sq[j] <= sq[j + 1]
Increasing(sq) == \A j \in 1..(Len(sq) - 1) : sq[j] < sq[j + 1]
Decreasing(sq) == \A j \in 1..(Len(sq) - 1) : sq[j] > sq[j + 1]

\* The chord is long enough for consecutive samples to differ by a length unit.
Resolved(geo) == IsFin(geo.L) /\ geo.L >= number_of_points

\* C1, amended: for a chord L > 0 the unrotated samples run from x1 = -L/2 at
\* index 0 up to x2 = L/2 at index number_of_points, never decreasing, and
\* strictly increasing wherever the model resolves consecutive samples.
C1_SamplesRunFromX1UpToX2 ==
  \A s \in SpanSet :
    (Generated(s) /\ IsFin(env[s].geom.L) /\ env[s].geom.L > 0) =>
      LET geo == env[s].geom
          x == geo.x_2d
      IN /\ geo.x2 = FDiv[geo.L, 2, 1] /\ geo.x1 = -geo.x2
         /\ x[1] = geo.x1
         /\ x[Len(x)] = geo.x2
         /\ NonDecreasing(x)
         /\ (Resolved(geo) => Increasing(x))

\* A span whose samples start at a negative x1 and end at a positive x2.
C1_Witness ==
  \E s \in SpanSet :
    /\ Generated(s) /\ Resolved(env[s].geom)
    /\ env[s].geom.x_2d[1] = env[s].geom.x1 /\ env[s].geom.x1 < 0
    /\ env[s].geom.x_2d[number_of_points + 1] = env[s].geom.x2 /\ env[s].geom.x2 > 0

\* C1 as stated: index 0 holds x2, the last index holds x1, and x decreases
\* strictly along the index.
C1_AsStated ==
  \A s \in SpanSet :
    (Generated(s) /\ Resolved(env[s].geom)) =>
      LET geo == env[s].geom
          x == geo.x_2d
      IN x[1] = geo.x2 /\ x[Len(x)] = geo.x1 /\ Decreasing(x)

\* C2: for n >= 2 points with every r_i > 0 and max(m) > 0 the returned %m'
\* is non-decreasing, starts at 0 and ends at 1 (SC), the last cumulative m
\* being the maximum.
C2_MeridionalMonotone ==
  \A s \in SpanSet :
    (/\ Converted(s)
     /\ Len(env[s].curve.r) >= 2
     /\ \A i \in DOMAIN env[s].curve.r : FGt[env[s].curve.r[i], 0]
     /\ FGt[env[s].curve.max_m, 0]) =>
      LET p == heap[env[s].m]
          m == env[s].curve.m
      IN /\ p[1] = 0
         /\ p[Len(p)] = SC
         /\ NonDecreasing(p)
         /\ m[Len(m)] = env[s].curve.max_m

\* A curve of at least three points, all off the axis, with an interior %m'.
C2_Witness ==
  \E s \in SpanSet :
    /\ Converted(s)
    /\ Len(env[s].curve.r) >= 3
    /\ \A i \in DOMAIN env[s].curve.r : FGt[env[s].curve.r[i], 0]
    /\ heap[env[s].m][2] > 0 /\ heap[env[s].m][2] < SC

\* C3: the rotated 2D point set, the 3D point set and both lists of the
\* meridional curve of a span have number_of_points + 1 entries, at every
\* stage of the pipeline.
C3_PointCount ==
  \A s \in SpanSet :
    /\ env[s].x_2d # 0 =>
         \A o \in {env[s].x_2d, env[s].y_2d, env[s].x_3d, env[s].y_3d, env[s].z_3d} :
            Len(heap[o]) = number_of_points + 1
    /\ env[s].m # 0 =>
         /\ Len(heap[env[s].m]) = number_of_points + 1
         /\ Len(heap[env[s].theta]) = number_of_points + 1

\* A span that went through every stage with 41-entry lists.
C3_Witness ==
  \E s \in SpanSet :
    /\ pc[s] = 6
    /\ Len(heap[env[s].x_2d]) = number_of_points + 1
    /\ Len(heap[env[s].theta]) = number_of_points + 1

\* The inputs the velocity triangle divides by zero on.
Degenerate(a) == a.z = 0 \/ a.rt = a.rh \/ a.ri = 0

\* C4 as stated: a call with z = 0, rt = rh or ri = 0 ends in an error; it
\* returns no result, so no later stage runs for that span.
C4_AsStated ==
  \A s \in SpanSet : Degenerate(args[s]) => pc[s] = 1

\* C5 as stated: when x_last > x_first the plain-arctangent estimator uses
\* the slope (y_last - y_first) / (x_last - x_first) and returns the angle
\* of the arctan2 estimator.
C5_AsStated ==
  \A s \in SpanSet :
    (/\ env[s].arctan2 # Unset /\ env[s].arctan # Unset
     /\ Last(heap[env[s].x_2d]) > First(heap[env[s].x_2d])) =>
      /\ env[s].arctan.slope_num =
           (Last(heap[env[s].y_2d]) - First(heap[env[s].y_2d])) * LU_PER_M
      /\ env[s].arctan.angle = env[s].arctan2.angle

\* C6 as stated: a call in which rc^2 < (x - xc)^2 for a sample fails at the
\* y-coordinate step; it does not return, so no later stage runs on its result.
C6_AsStated ==
  \A s \in SpanSet :
    Generated(s) =>
      \A j \in DOMAIN env[s].geom.radicand :
         ~(IsFin(env[s].geom.radicand[j]) /\ env[s].geom.radicand[j] < 0)

\* C7 as stated: interpolate_polynomial returns nothing for a curve of
\* n <= 5 points.
C7_AsStated ==
  \A s \in SpanSet :
    (env[s].m # 0 /\ Len(heap[env[s].m]) <= 5) => env[s].fit = Unset

\* Everything the script holds for span s, references followed.
Deref(o) == IF o = 0 THEN <<>> ELSE heap[o]
Outputs(s) ==
  [x_3d |-> Deref(env[s].x_3d), y_3d |-> Deref(env[s].y_3d),
   z_3d |-> Deref(env[s].z_3d), x_2d |-> Deref(env[s].x_2d),
   y_2d |-> Deref(env[s].y_2d), m |-> Deref(env[s].m),
   theta |-> Deref(env[s].theta), geom |-> env[s].geom, curve |-> env[s].curve,
   fit |-> env[s].fit, arctan2 |-> env[s].arctan2, arctan |-> env[s].arctan]

\* Spans s and t were called with the same arguments and are at the same stage.
SameRun(s, t) ==
  /\ args[s] = args[t] /\ pc[s] = pc[t]
  /\ raised[s].raised = "none" /\ raised[t].raised = "none"

\* C8: whatever the order in which the stages of the three spans run, two
\* spans given the same inputs hold the same outputs at the same stage, and
\* a step of one span changes no output of another.
C8_SpansIndependent ==
  /\ [](\A s, t \in SpanSet : SameRun(s, t) => Outputs(s) = Outputs(t))
  /\ [][\A t \in SpanSet :
          (pc'[t] = pc[t] /\ raised'[t] = raised[t]) => Outputs(t)' = Outputs(t)]_vars

\* Two spans with the same inputs and one with other inputs have all
\* finished, the third with other outputs.
C8_Witness ==
  \E s, t, u \in SpanSet :
    /\ s # t /\ SameRun(s, t) /\ pc[s] = 6
    /\ args[u] # args[s] /\ pc[u] = 6 /\ Outputs(u) # Outputs(s)

\* C9: no step changes an object that exists or rebinds a variable of the
\* script that is bound, and z_3d is the object y_2d_rotated.
C9_NoMutation ==
  [][/\ \A o \in DOMAIN heap : o \in DOMAIN heap' /\ heap'[o] = heap[o]
     /\ \A s \in SpanSet :
          /\ env[s].x_2d # 0 =>
               /\ env'[s].x_2d = env[s].x_2d /\ env'[s].y_2d = env[s].y_2d
               /\ env'[s].x_3d = env[s].x_3d /\ env'[s].y_3d = env[s].y_3d
               /\ env'[s].z_3d = env[s].z_3d
          /\ env[s].m # 0 =>
               env'[s].m = env[s].m /\ env'[s].theta = env[s].theta
          /\ env'[s].z_3d = env'[s].y_2d]_vars

\* A span whose five stages have all run on its arrays.
C9_Witness ==
  \E s \in SpanSet :
    /\ pc[s] = 6 /\ env[s].arctan # Unset
    /\ env[s].z_3d # 0 /\ env[s].z_3d = env[s].y_2d
    /\ env[s].m # 0 /\ \E i \in DOMAIN heap[env[s].theta] : heap[env[s].theta][i] # 0

\* C10, amended: cartesian_to_meridional returns only for an input of at
\* least two points (a single point ends in ZeroDivisionError at line 127);
\* whenever it returns, the first %m', the first cumulative m and the first
\* theta are 0, and m of the second point is measured from the radius of
\* point 0, not from the placeholder r_prev = 0.
C10_CurveStartsAtOrigin ==
  \A s \in SpanSet :
    /\ (env[s].x_3d # 0 /\ Len(heap[env[s].x_3d]) = 1) => ~Converted(s)
    /\ Converted(s) =>
         LET z == heap[env[s].z_3d]
             c == env[s].curve
         IN /\ Len(c.m) >= 2
            /\ heap[env[s].m][1] = 0
            /\ heap[env[s].theta][1] = 0
            /\ c.m[1] = 0
            /\ c.m[2] = MeridionalStep(0, c.r[1], c.r[2], z[2], z[1])

\* A returned curve whose point 0 lies off the axis and whose second m is positive.
C10_Witness ==
  \E s \in SpanSet :
    /\ Converted(s)
    /\ env[s].curve.r[1] > 0
    /\ env[s].curve.m[2] > 0
    /\ heap[env[s].m][1] = 0 /\ heap[env[s].theta][1] = 0

\* C10 as stated: a call on a non-empty input returns a curve that starts
\* at (%m' = 0, theta = 0).
C10_AsStated ==
  \A s \in SpanSet :
    (env[s].x_3d # 0 /\ Len(heap[env[s].x_3d]) >= 1
       /\ (pc[s] >= 3 \/ raised[s].raised # "none")) =>
      /\ Converted(s)
      /\ heap[env[s].m][1] = 0
      /\ heap[env[s].theta][1] = 0
====
